---- MODULE Spec2Model ----
(***************************************************************************)
(* SmartCleaner (src/main.py): one class that loads a CSV file into a      *)
(* pandas DataFrame, imputes missing values, drops duplicate rows, title-  *)
(* cases string columns and writes the result back as CSV; and the driver  *)
(* under  if __name__ == "__main__"  that calls the methods in fixed order.*)
(*                                                                         *)
(* The pandas calls are modelled by what pandas 2.x does on the values the *)
(* model uses: text is a sequence of one-character strings, a number is an *)
(* exact fraction n/d, a missing value is NaN.  A file is its header and   *)
(* its rows of text fields (delimiters and quoting are below the model).   *)
(***************************************************************************)
EXTENDS Integers, Sequences, FiniteSets, TLC

\* Largest number of data rows of an input file.
MaxRows == 3

VARIABLES
    file,       \* the file at file_path: its kind and, for a CSV, its content
    data,       \* self.data: Undefined before __init__ assigns it, None, or a DataFrame
    out_file,   \* the file at output_path
    printed,    \* first line printed by the last method that ran
    raised,     \* "none", or the exception that left the last method uncaught
    pc,         \* line of the driver about to run; 0 when the methods are called freely
    lastOp,     \* name of the last method that ran
    removed     \* the count the last method printed, if it was remove_duplicates

vars == <<file, data, out_file, printed, raised, pc, lastOp, removed>>

----------------------------------------------------------------------------
(* Characters (Python str, restricted to printable ASCII).                 *)

LowerLetters ==
    <<"a","b","c","d","e","f","g","h","i","j","k","l","m",
      "n","o","p","q","r","s","t","u","v","w","x","y","z">>

UpperLetters ==
    <<"A","B","C","D","E","F","G","H","I","J","K","L","M",
      "N","O","P","Q","R","S","T","U","V","W","X","Y","Z">>

DigitChars == <<"0","1","2","3","4","5","6","7","8","9">>

\* Printable ASCII in code-point order, the order Python compares str by
\* (the double quote, the backslash and the backquote are left out).
Ascii ==
    <<" ","!","#","$","%","&","'","(",")","*","+",",","-",".","/">>
    \o DigitChars
    \o <<":",";","<","=",">","?","@">>
    \o UpperLetters
    \o <<"[","]","^","_">>
    \o LowerLetters
    \o <<"{","|","}","~">>

IndexOf(seq, c) == CHOOSE i \in 1..Len(seq) : seq[i] = c

IsIn(seq, c) == \E i \in 1..Len(seq) : seq[i] = c

IsLower(c) == IsIn(LowerLetters, c)

IsUpper(c) == IsIn(UpperLetters, c)

IsCased(c) == IsLower(c) \/ IsUpper(c)

IsDigit(c) == IsIn(DigitChars, c)

ToUpper(c) == IF IsLower(c) THEN UpperLetters[IndexOf(LowerLetters, c)] ELSE c

ToLower(c) == IF IsUpper(c) THEN LowerLetters[IndexOf(UpperLetters, c)] ELSE c

Ord(c) == IndexOf(Ascii, c)

\* Python's  s < t  on str: lexicographic by code point.
RECURSIVE StrLess(_, _)
StrLess(s, t) ==
    IF t = <<>> THEN FALSE
    ELSE IF s = <<>> THEN TRUE
    ELSE IF Ord(Head(s)) # Ord(Head(t)) THEN Ord(Head(s)) < Ord(Head(t))
    ELSE StrLess(Tail(s), Tail(t))

\* A plausible slip: str.capitalize() in place of str.title().
capitalize(s) ==
    [i \in 1..Len(s) |-> IF i = 1 THEN ToUpper(s[i]) ELSE ToLower(s[i])]

\* str.title(): a cased character is upper-cased unless the character before
\* it is cased, in which case it is lower-cased.
str_title(s) ==
    [i \in 1..Len(s) |->
        IF i > 1 /\ IsCased(s[i-1]) THEN ToLower(s[i]) ELSE ToUpper(s[i])]

----------------------------------------------------------------------------
(* Numbers: float64/int64 values as exact fractions.                       *)

RECURSIVE Gcd(_, _)
Gcd(a, b) == IF b = 0 THEN a ELSE Gcd(b, a % b)

Abs(x) == IF x < 0 THEN -x ELSE x

RECURSIVE Pow10(_)
Pow10(k) == IF k = 0 THEN 1 ELSE 10 * Pow10(k - 1)

----------------------------------------------------------------------------
(* Cells of a DataFrame.                                                   *)

NaN == [t |-> "nan", n |-> 0, d |-> 1, s |-> <<>>]

Str(s) == [t |-> "str", n |-> 0, d |-> 1, s |-> s]

Num(n, d) ==
    LET g == Gcd(Abs(n), d)
    IN  [t |-> "num", n |-> n \div g, d |-> d \div g, s |-> <<>>]

isnull(c) == c.t = "nan"

----------------------------------------------------------------------------
(* Text of numbers, as to_csv writes them and read_csv reads them.         *)

RECURSIVE Digits(_)
Digits(n) ==
    IF n < 10 THEN <<DigitChars[n + 1]>>
    ELSE Digits(n \div 10) \o <<DigitChars[(n % 10) + 1]>>

\* The digits after the point of rem/d, at most k of them.
RECURSIVE FracDigits(_, _, _)
FracDigits(rem, d, k) ==
    IF rem = 0 \/ k = 0 THEN <<>>
    ELSE <<DigitChars[((rem * 10) \div d) + 1]>> \o FracDigits((rem * 10) % d, d, k - 1)

\* str() of an int64 value.
IntText(c) == (IF c.n < 0 THEN <<"-">> ELSE <<>>) \o Digits(Abs(c.n))

\* repr() of a float64 value: always with a point, "2.0", "1.5".
FloatText(c) ==
    LET whole == Abs(c.n) \div c.d
        rem   == Abs(c.n) % c.d
    IN  (IF c.n < 0 THEN <<"-">> ELSE <<>>)
        \o Digits(whole) \o <<".">>
        \o (IF rem = 0 THEN <<"0">> ELSE FracDigits(rem, c.d, 17))

AllDigits(f) == f # <<>> /\ \A i \in 1..Len(f) : IsDigit(f[i])

Unsigned(f) == IF f # <<>> /\ Head(f) = "-" THEN Tail(f) ELSE f

IsIntLit(f) == AllDigits(Unsigned(f))

PointAt(f) == CHOOSE i \in 1..Len(f) : f[i] = "."

IsFloatLit(f) ==
    LET u == Unsigned(f)
    IN  /\ IsIn(u, ".")
        /\ AllDigits(SubSeq(u, 1, PointAt(u) - 1))
        /\ AllDigits(SubSeq(u, PointAt(u) + 1, Len(u)))

IsNumLit(f) == IsIntLit(f) \/ IsFloatLit(f)

RECURSIVE ParseNat(_)
ParseNat(ds) ==
    IF ds = <<>> THEN 0
    ELSE 10 * ParseNat(SubSeq(ds, 1, Len(ds) - 1)) + (IndexOf(DigitChars, ds[Len(ds)]) - 1)

ParseNumber(f) ==
    LET u    == Unsigned(f)
        sign == IF f # <<>> /\ Head(f) = "-" THEN -1 ELSE 1
    IN  IF IsIntLit(f) THEN Num(sign * ParseNat(u), 1)
        ELSE LET p    == PointAt(u)
                 frac == SubSeq(u, p + 1, Len(u))
             IN  Num(sign * (ParseNat(SubSeq(u, 1, p - 1)) * Pow10(Len(frac)) + ParseNat(frac)),
                     Pow10(Len(frac)))

\* The strings read_csv takes for a missing value (pandas' default na_values).
STR_NA_VALUES ==
    { <<>>,
      <<"#","N","/","A">>, <<"#","N","/","A"," ","N","/","A">>, <<"#","N","A">>,
      <<"-","1",".","#","I","N","D">>, <<"-","1",".","#","Q","N","A","N">>,
      <<"-","N","a","N">>, <<"-","n","a","n">>,
      <<"1",".","#","I","N","D">>, <<"1",".","#","Q","N","A","N">>,
      <<"<","N","A",">">>, <<"N","/","A">>, <<"N","A">>, <<"N","U","L","L">>,
      <<"N","a","N">>, <<"N","o","n","e">>, <<"n","/","a">>, <<"n","a","n">>,
      <<"n","u","l","l">> }

IsNA(f) == f \in STR_NA_VALUES

----------------------------------------------------------------------------
(* Files and DataFrames.                                                   *)

\* A file: "absent", "denied" (exists, cannot be opened), "empty" (no bytes),
\* "malformed" (a row with more fields than the header) or "csv".
FileOf(kind, header, rows) == [kind |-> kind, header |-> header, rows |-> rows]

NoFile == FileOf("absent", <<>>, <<>>)

Frame(kind, columns, dtypes, rows) ==
    [kind |-> kind, columns |-> columns, dtypes |-> dtypes, rows |-> rows]

Undefined == Frame("undefined", <<>>, <<>>, <<>>)

None == Frame("None", <<>>, <<>>, <<>>)

NRows(df) == Len(df.rows)

NCols(df) == Len(df.columns)

\* df[column] for the j-th column.
Column(df, j) == [i \in 1..NRows(df) |-> df.rows[i][j]]

\* The dtype read_csv infers for a column from its fields.
InferDtype(fields) ==
    IF Len(fields) = 0 THEN "object"
    ELSE IF \A i \in 1..Len(fields) : IsNA(fields[i]) \/ IsNumLit(fields[i])
         THEN IF \A i \in 1..Len(fields) : IsIntLit(fields[i]) THEN "int64" ELSE "float64"
    ELSE "object"

ParseCell(f, dtype) ==
    IF IsNA(f) THEN NaN
    ELSE IF dtype = "object" THEN Str(f)
    ELSE ParseNumber(f)

\* pd.read_csv(file_path): the exception it raises, or the DataFrame.
read_csv(f) ==
    IF f.kind = "absent" THEN [exc |-> "FileNotFoundError", df |-> None]
    ELSE IF f.kind = "denied" THEN [exc |-> "PermissionError", df |-> None]
    ELSE IF f.kind = "empty" THEN [exc |-> "EmptyDataError", df |-> None]
    ELSE IF f.kind = "malformed" THEN [exc |-> "ParserError", df |-> None]
    ELSE LET nc     == Len(f.header)
             nr     == Len(f.rows)
             dtypes == [j \in 1..nc |-> InferDtype([i \in 1..nr |-> f.rows[i][j]])]
         IN  [exc |-> "none",
              df  |-> Frame("DataFrame", f.header, dtypes,
                            [i \in 1..nr |-> [j \in 1..nc |-> ParseCell(f.rows[i][j], dtypes[j])]])]

CellText(c, dtype) ==
    IF isnull(c) THEN <<>>
    ELSE IF c.t = "str" THEN c.s
    ELSE IF dtype = "int64" THEN IntText(c)
    ELSE FloatText(c)

\* DataFrame.to_csv(output_path, index=False): the header row, then one row
\* of fields per row of the frame, with no index column.
to_csv(df) ==
    FileOf("csv", df.columns,
           [i \in 1..NRows(df) |-> [j \in 1..NCols(df) |-> CellText(df.rows[i][j], df.dtypes[j])]])

----------------------------------------------------------------------------
(* The pandas operations the methods call.                                 *)

Present(col) == SelectSeq(col, LAMBDA c : ~isnull(c))

RatAdd(a, b) == Num(a.n * b.d + b.n * a.d, a.d * b.d)

RECURSIVE SumFrom(_, _)
SumFrom(cells, i) ==
    IF i > Len(cells) THEN Num(0, 1) ELSE RatAdd(cells[i], SumFrom(cells, i + 1))

\* A plausible slip: the sum divided by the length of the column, NaN included.
MeanOverAllCells(col) ==
    LET p == Present(col)
        t == SumFrom(p, 1)
    IN  IF Len(p) = 0 THEN NaN ELSE Num(t.n, t.d * Len(col))

\* Series.mean(): the mean of the values that are not NaN; NaN if there are none.
mean(col) ==
    LET p == Present(col)
        t == SumFrom(p, 1)
    IN  IF Len(p) = 0 THEN NaN ELSE Num(t.n, t.d * Len(p))

Count(col, v) == Cardinality({i \in 1..Len(col) : col[i] = v})

\* Series.mode(): the most frequent of the values that are not NaN (all of
\* them when several tie; pandas returns them sorted).
mode(col) ==
    LET p    == Present(col)
        vals == {p[i] : i \in 1..Len(p)}
    IN  {v \in vals : \A w \in vals : Count(p, w) <= Count(p, v)}

\* mode()[0]: the first of the sorted modes.
FirstOf(modes) == CHOOSE v \in modes : \A w \in modes : w = v \/ StrLess(v.s, w.s)

\* df[column].fillna(value, inplace=True); filling with NaN changes nothing.
fillna(df, j, value) ==
    IF isnull(value) THEN df
    ELSE [df EXCEPT !.rows =
            [i \in 1..NRows(df) |->
                [k \in 1..NCols(df) |->
                    IF k = j /\ isnull(df.rows[i][k]) THEN value ELSE df.rows[i][k]]]]

\* The loop of handle_missing_values from column j on: the frame it leaves
\* and the exception that ended it, if any.
RECURSIVE ImputeFrom(_, _)
ImputeFrom(df, j) ==
    IF j > NCols(df) THEN [df |-> df, exc |-> "none"]
    ELSE IF df.dtypes[j] \in {"float64", "int64"}
         THEN ImputeFrom(fillna(df, j, mean(Column(df, j))), j + 1)
    ELSE IF mode(Column(df, j)) = {} THEN [df |-> df, exc |-> "KeyError"]
    ELSE ImputeFrom(fillna(df, j, FirstOf(mode(Column(df, j)))), j + 1)

\* A plausible slip: a row is dropped only when it equals the row kept just
\* before it (duplicates that are not adjacent survive).
RECURSIVE DropAdjacent(_, _, _)
DropAdjacent(rows, i, kept) ==
    IF i > Len(rows) THEN kept
    ELSE IF kept # <<>> /\ kept[Len(kept)] = rows[i] THEN DropAdjacent(rows, i + 1, kept)
    ELSE DropAdjacent(rows, i + 1, Append(kept, rows[i]))

\* DataFrame.drop_duplicates(): rows in order, each kept unless an equal row
\* was kept before it (NaN equals NaN here).
RECURSIVE DropFrom(_, _, _)
DropFrom(rows, i, kept) ==
    IF i > Len(rows) THEN kept
    ELSE IF \E k \in 1..Len(kept) : kept[k] = rows[i] THEN DropFrom(rows, i + 1, kept)
    ELSE DropFrom(rows, i + 1, Append(kept, rows[i]))

\* A plausible slip: rows removed while the loop walks them, so that only the
\* first duplicate found is removed by one call.
DropWhileIterating(df) ==
    LET dups == {i \in 1..NRows(df) : \E k \in 1..(i - 1) : df.rows[k] = df.rows[i]}
        first == CHOOSE i \in dups : \A k \in dups : i <= k
    IN  IF dups = {} THEN df
        ELSE [df EXCEPT !.rows = SubSeq(df.rows, 1, first - 1)
                                 \o SubSeq(df.rows, first + 1, NRows(df))]

drop_duplicates(df) == [df EXCEPT !.rows = DropFrom(df.rows, 1, <<>>)]

is_datetime64_any_dtype(df, j) == df.dtypes[j] = "datetime64[ns]"

\* pd.api.types.is_string_dtype on an object column: every element is a str.
is_string_dtype(df, j) ==
    /\ df.dtypes[j] = "object"
    /\ \A i \in 1..NRows(df) : df.rows[i][j].t = "str"

\* The column fix_inconsistent_formats assigns back to df[column].
FixColumn(df, j) ==
    IF is_datetime64_any_dtype(df, j) THEN Column(df, j)
    ELSE IF is_string_dtype(df, j)
         THEN [i \in 1..NRows(df) |-> Str(str_title(df.rows[i][j].s))]
    ELSE Column(df, j)

FixAll(df) ==
    [df EXCEPT !.rows =
        [i \in 1..NRows(df) |-> [j \in 1..NCols(df) |-> FixColumn(df, j)[i]]]]

----------------------------------------------------------------------------
(* The methods of SmartCleaner.  Each runs at its line of the driver       *)
(* (pc = that line) or, when pc = 0, whenever a caller invokes it on a     *)
(* constructed object.  An uncaught exception ends the process.            *)

Callable(line) ==
    /\ raised = "none"
    /\ \/ pc = line
       \/ pc = 0 /\ lastOp # "none"

Ran(op) ==
    /\ lastOp' = op
    /\ pc' = IF pc = 0 \/ raised' # "none" THEN pc ELSE pc + 1

\* A plausible slip: the except clause for ParserError is missing.
CaughtWithoutParserError(exc) == exc \in {"FileNotFoundError", "EmptyDataError"}

\* The except clauses of __init__.
Caught(exc) == exc \in {"FileNotFoundError", "EmptyDataError", "ParserError"}

\* What the except clause for exc prints.
ErrorLine(exc) ==
    IF exc = "FileNotFoundError" THEN "Error: File not found at"
    ELSE IF exc = "EmptyDataError" THEN "Error: The file is empty."
    ELSE "Error: Could not parse the file."

\* __init__(file_path)
SmartCleaner ==
    /\ raised = "none"
    /\ lastOp = "none"
    /\ pc \in {0, 112}
    /\ LET r == read_csv(file)
       IN  IF r.exc = "none"
           THEN data' = r.df /\ printed' = "Data successfully loaded." /\ raised' = "none"
           ELSE IF Caught(r.exc)
           THEN data' = None /\ printed' = ErrorLine(r.exc) /\ raised' = "none"
           ELSE data' = data /\ printed' = "" /\ raised' = r.exc
    /\ Ran("__init__")
    /\ removed' = 0
    /\ UNCHANGED <<file, out_file>>

summarize_data ==
    /\ Callable(113)
    /\ printed' = IF data # None THEN "Dataset Summary:" ELSE "No data to summarize."
    /\ data' = data
    /\ UNCHANGED <<file, out_file, raised>>
    /\ Ran("summarize_data")
    /\ removed' = 0

identify_missing_values ==
    /\ Callable(114)
    /\ printed' = IF data # None THEN "Missing Values Summary:"
                  ELSE "No data to analyze for missing values."
    /\ data' = data
    /\ UNCHANGED <<file, out_file, raised>>
    /\ Ran("identify_missing_values")
    /\ removed' = 0

handle_missing_values ==
    /\ Callable(115)
    /\ IF data # None
       THEN LET r == ImputeFrom(data, 1)
            IN  /\ data' = r.df
                /\ raised' = r.exc
                /\ printed' = IF r.exc = "none"
                              THEN "Missing values handled by mean/mode imputation."
                              ELSE ""
       ELSE /\ data' = data
            /\ raised' = raised
            /\ printed' = "No data to handle missing values."
    /\ Ran("handle_missing_values")
    /\ removed' = 0
    /\ UNCHANGED <<file, out_file>>

remove_duplicates ==
    /\ Callable(116)
    /\ IF data # None
       THEN /\ data' = drop_duplicates(data)
            /\ removed' = NRows(data) - NRows(data')
            /\ printed' = "Duplicates removed:"
       ELSE /\ data' = data
            /\ removed' = 0
            /\ printed' = "No data from which to remove duplicates."
    /\ UNCHANGED <<file, out_file, raised>>
    /\ Ran("remove_duplicates")

fix_inconsistent_formats ==
    /\ Callable(117)
    /\ IF data # None
       THEN /\ data' = FixAll(data)
            /\ printed' = "Inconsistent formats fixed where applicable."
       ELSE /\ data' = data
            /\ printed' = "No data to fix formats."
    /\ UNCHANGED <<file, out_file, raised>>
    /\ Ran("fix_inconsistent_formats")
    /\ removed' = 0

\* save_clean_data(output_path); ok: whether output_path can be written.
save_clean_data ==
    /\ Callable(118)
    /\ \E ok \in BOOLEAN :
          IF data # None
          THEN IF ok
               THEN out_file' = to_csv(data) /\ printed' = "Cleaned data saved to"
               ELSE out_file' = out_file /\ printed' = "Error when saving data:"
          ELSE out_file' = out_file /\ printed' = "No data to save."
    /\ data' = data
    /\ UNCHANGED <<file, raised>>
    /\ Ran("save_clean_data")
    /\ removed' = 0

----------------------------------------------------------------------------
(* Input files and the two ways the class is used.                         *)

Header == <<"qty", "name">>

NumFields == { <<>>, <<"0">>, <<"3">> }

TextFields ==
    { <<>>, <<"#","n","/","a">>, <<"j","o"," ","a","n","n">>, <<"J","O"," ","A","N","N">> }

CsvOf(nums, texts) ==
    { FileOf("csv", Header, rows) :
        rows \in UNION { [1..k -> nums \X texts] : k \in 0..MaxRows } }

OtherFiles ==
    { NoFile, FileOf("denied", <<>>, <<>>), FileOf("empty", <<>>, <<>>),
      FileOf("malformed", <<>>, <<>>) }

\* The files the driver is run on.
Files == OtherFiles \cup CsvOf(NumFields, TextFields)

\* The files of the free caller: fewer field values, one text with a hyphen
\* and a blank in it.
FilesAny ==
    OtherFiles \cup CsvOf({ <<>>, <<"3">> }, { <<>>, <<"a","n","n","-","j","o"," ","b">> })

Start(files, line) ==
    /\ file \in files
    /\ data = Undefined
    /\ out_file = NoFile
    /\ printed = ""
    /\ raised = "none"
    /\ pc = line
    /\ lastOp = "none"
    /\ removed = 0

\* The driver: lines 112 to 118, one call each.
Init == Start(Files, 112)

\* A caller that constructs the object and then calls its methods in any order.
InitAny == Start(FilesAny, 0)

Next ==
    \/ SmartCleaner
    \/ summarize_data
    \/ identify_missing_values
    \/ handle_missing_values
    \/ remove_duplicates
    \/ fix_inconsistent_formats
    \/ save_clean_data

Spec == Init /\ [][Next]_vars

SpecAny == InitAny /\ [][Next]_vars

----------------------------------------------------------------------------
(* Vocabulary of the properties.                                           *)

IsFrame(df) == df.kind = "DataFrame"

LoadFailed == file.kind \in {"absent", "empty", "malformed"}

\* The line a method prints when self.data is None.
Advisory(op) ==
    IF op = "summarize_data" THEN "No data to summarize."
    ELSE IF op = "identify_missing_values" THEN "No data to analyze for missing values."
    ELSE IF op = "handle_missing_values" THEN "No data to handle missing values."
    ELSE IF op = "remove_duplicates" THEN "No data from which to remove duplicates."
    ELSE IF op = "fix_inconsistent_formats" THEN "No data to fix formats."
    ELSE "No data to save."

IsNumeric(df, j) == df.dtypes[j] \in {"int64", "float64"}

HasPresent(df, j) == \E i \in 1..NRows(df) : ~isnull(df.rows[i][j])

HasMissing(df, j) == \E i \in 1..NRows(df) : isnull(df.rows[i][j])

AllMissing(df, j) == NRows(df) >= 1 /\ ~HasPresent(df, j)

NoMissingCell(df) == \A j \in 1..NCols(df) : ~HasMissing(df, j)

SameShape(df, ef) ==
    /\ IsFrame(ef)
    /\ ef.columns = df.columns
    /\ NRows(ef) = NRows(df)

\* v is the arithmetic mean of the present values of col: v * count = sum.
IsMeanOf(v, col) ==
    LET p == Present(col)
    IN  /\ v.t = "num"
        /\ Num(v.n * Len(p), v.d) = SumFrom(p, 1)

\* v is a present value of col that no other value outnumbers.
IsMostFrequentOf(v, col) ==
    /\ ~isnull(v)
    /\ \E i \in 1..Len(col) : col[i] = v
    /\ \A i \in 1..Len(col) : isnull(col[i]) \/ Count(col, col[i]) <= Count(col, v)

IsSpace(c) == c \in {" ", "\t", "\n", "\r", "\f"}

\* t is s in title case with words delimited by whitespace: the first letter
\* of each word upper-cased, every other letter lower-cased.
FirstLetterOfWord(s, k) ==
    /\ IsCased(s[k])
    /\ \A m \in 1..(k - 1) : IsCased(s[m]) => \E w \in (m + 1)..(k - 1) : IsSpace(s[w])

IsWhitespaceTitleOf(t, s) ==
    /\ Len(t) = Len(s)
    /\ \A k \in 1..Len(s) :
          t[k] = IF FirstLetterOfWord(s, k) THEN ToUpper(s[k]) ELSE ToLower(s[k])

\* t is s in title case with words being the runs of letters: a letter is
\* upper-cased at the start of a run and lower-cased inside one.
IsLetterRunTitleOf(t, s) ==
    /\ Len(t) = Len(s)
    /\ \A k \in 1..Len(s) :
          /\ (k > 1 /\ IsCased(s[k - 1])) => t[k] = ToLower(s[k])
          /\ (k = 1 \/ ~IsCased(s[k - 1])) => t[k] = ToUpper(s[k])

\* The rows of old that equal no earlier row, in their order.
FirstOccurrences(old) == {i \in 1..Len(old) : \A k \in 1..(i - 1) : old[k] # old[i]}

IsFirstOccurrencesOf(new, old) ==
    LET keep == FirstOccurrences(old)
    IN  /\ Len(new) = Cardinality(keep)
        /\ \A i \in keep : new[Cardinality({k \in keep : k <= i})] = old[i]

JoAnn == <<"j","o"," ","a","n","n">>

AnnJoB == <<"a","n","n","-","j","o"," ","b">>

----------------------------------------------------------------------------
(* C1 (SpecAny).                                                           *)

\* C1: when the constructor fails with FileNotFound, EmptyInput or ParseError,
\* self.data is None after it and after any sequence of the six methods; each
\* method only prints its advisory, no output file is written, nothing raises.
C1_FailedLoadMakesEveryStepANoOp ==
    (LoadFailed /\ lastOp # "none") =>
        /\ data = None
        /\ out_file = NoFile
        /\ raised = "none"
        /\ lastOp # "__init__" => printed = Advisory(lastOp)

C1_Witness ==
    /\ file.kind = "malformed"
    /\ lastOp = "save_clean_data"
    /\ printed = "No data to save."
    /\ data = None

----------------------------------------------------------------------------
(* C2 (Spec).                                                              *)

\* C2: no method of the driver run ends with an exception that is not caught,
\* whatever the input file and whatever dataset was loaded.
C2_NothingPropagates == raised = "none"

----------------------------------------------------------------------------
(* C3 (Spec).                                                              *)

ImputedCell(old, new, j, i) ==
    IF ~isnull(old.rows[i][j]) THEN new.rows[i][j] = old.rows[i][j]
    ELSE IF IsNumeric(old, j) THEN IsMeanOf(new.rows[i][j], Column(old, j))
    ELSE IsMostFrequentOf(new.rows[i][j], Column(old, j))

----------------------------------------------------------------------------
(* C4 (Spec).                                                              *)

\* C4: handle_missing_values never prints its ordinary confirmation while a
\* column in which every cell is missing is left as it was.
C4_AllMissingColumnIsReported ==
    (lastOp = "handle_missing_values"
        /\ printed = "Missing values handled by mean/mode imputation.") =>
        \A j \in 1..NCols(data) : ~AllMissing(data, j)

----------------------------------------------------------------------------
(* C5 (SpecAny).                                                           *)

\* C5: remove_duplicates on a dataset keeps exactly the first occurrence of
\* each distinct row, in the original order, and prints the number of rows
\* before minus the number of rows after.
C5_DropsLaterDuplicatesOnly ==
    [][(lastOp' = "remove_duplicates" /\ IsFrame(data)) =>
        /\ IsFrame(data')
        /\ data'.columns = data.columns
        /\ IsFirstOccurrencesOf(data'.rows, data.rows)
        /\ removed' = NRows(data) - NRows(data')]_vars

C5_Witness ==
    /\ lastOp = "remove_duplicates"
    /\ removed = 1
    /\ Len(file.rows) = 3
    /\ file.rows[1] = file.rows[3]
    /\ file.rows[1] # file.rows[2]
    /\ NRows(data) = 2

----------------------------------------------------------------------------
(* C6 (Spec).                                                              *)

\* C6: when the driver reaches save_clean_data with a dataset, no cell of the
\* dataset is missing.
C6_NothingMissingAtSave ==
    (pc = 118 /\ raised = "none" /\ IsFrame(data)) => NoMissingCell(data)

----------------------------------------------------------------------------
(* C7 (SpecAny).                                                           *)

----------------------------------------------------------------------------
(* C8 (SpecAny).                                                           *)

\* C8: a remove_duplicates that runs right after a remove_duplicates removes
\* 0 rows, and a fix_inconsistent_formats that runs right after a
\* fix_inconsistent_formats leaves the dataset as it was.
C8_SecondRunChangesNothing ==
    [][/\ (lastOp = "remove_duplicates" /\ lastOp' = "remove_duplicates" /\ IsFrame(data))
            => (removed' = 0 /\ data' = data)
       /\ (lastOp = "fix_inconsistent_formats" /\ lastOp' = "fix_inconsistent_formats")
            => data' = data]_vars

\* Rows were removed, and the remove_duplicates that ran last removed none:
\* it was not the first one.
C8_Witness ==
    /\ lastOp = "remove_duplicates"
    /\ removed = 0
    /\ IsFrame(data)
    /\ NRows(data) < Len(file.rows)

----------------------------------------------------------------------------
(* C9 (Spec).                                                              *)

\* C9: the file the driver saved, read back by the constructor, is the
\* dataset that was saved: same columns, same rows, same cells.
C9_SaveThenLoadIsIdentity ==
    (pc = 119 /\ printed = "Cleaned data saved to") =>
        /\ read_csv(out_file).exc = "none"
        /\ read_csv(out_file).df = data

----------------------------------------------------------------------------
(* C10 (Spec).                                                             *)

\* C10: when the driver reaches save_clean_data with a dataset, no two rows
\* of the dataset are equal in all columns.
C10_NoDuplicateRowsAtSave ==
    (pc = 118 /\ raised = "none" /\ IsFrame(data)) =>
        \A i \in 1..NRows(data) : \A k \in 1..NRows(data) :
            i # k => data.rows[i] # data.rows[k]

====
